---- MODULE Spec2Model ----
(***************************************************************************)
(* Model of notebooks/datasource.py: the ChEMBL bioactivity data source    *)
(* (ChEMBLApiDataSource) and the cleaning pipeline                         *)
(* (Preprocessing.clean_dataset).                                          *)
(*                                                                         *)
(* A DataFrame is a record [columns, rows]: the set of its column names    *)
(* and the sequence of its rows, each row a function from the column names *)
(* to values.  A value that may be missing (Python's None, pandas' NaN) is *)
(* a set of at most one element: Null when missing, Some(x) otherwise.     *)
(* A text whose characters matter (standard_type) is a sequence of         *)
(* one-character strings.                                                  *)
(*                                                                         *)
(* Floats are held exactly, as an integer number of halves: the float x is *)
(* the integer 2x.  np.std's result is held as its square, the population  *)
(* variance, a reduced fraction <<num, den>> (the square root is           *)
(* injective, so equal deviations are equal fractions).                    *)
(***************************************************************************)
EXTENDS Integers, Sequences, FiniteSets, TLC

\* Largest number of rows of a raw bioactivities table.
MaxRows == 2

\* A missing value, and a present one.
Null == {}
Some(x) == {x}
\* The value a present optional holds.
Get(o) == CHOOSE x \in o : TRUE

\* No exception.
NoError == "None"

-----------------------------------------------------------------------------
(* Sequence helpers *)

RECURSIVE SeqSum(_)
SeqSum(s) == IF s = <<>> THEN 0 ELSE Head(s) + SeqSum(Tail(s))

RECURSIVE SeqSumSq(_)
SeqSumSq(s) == IF s = <<>> THEN 0 ELSE Head(s) * Head(s) + SeqSumSq(Tail(s))

RECURSIVE Insert(_, _)
Insert(x, s) ==
    IF s = <<>> THEN <<x>>
    ELSE IF x <= Head(s) THEN <<x>> \o s
    ELSE <<Head(s)>> \o Insert(x, Tail(s))

RECURSIVE Sorted(_)
Sorted(s) == IF s = <<>> THEN <<>> ELSE Insert(Head(s), Sorted(Tail(s)))

RECURSIVE Gcd(_, _)
Gcd(a, b) == IF b = 0 THEN a ELSE Gcd(b, a % b)

\* The elements of s, in order, at the positions where mask is TRUE.
RECURSIVE SelectMask(_, _)
SelectMask(s, mask) ==
    IF s = <<>> THEN <<>>
    ELSE (IF Head(mask) THEN <<Head(s)>> ELSE <<>>)
         \o SelectMask(Tail(s), Tail(mask))

-----------------------------------------------------------------------------
(* The values a ChEMBL activity record carries *)

\* parent_molecule_chembl_id values, in their sort order.
CompoundIds == <<"CHEMBL1", "CHEMBL2">>

Relations == {"=", "<"}

ValidityComments == {Null, Some("Outside typical range")}

\* pchembl_value arrives as text; 5.0 and 6.0 are 1 apart, 6.0 and 8.0 are 2
\* apart (deviation exactly 1), 5.0 and 8.0 are 3 apart (deviation 1.5).
PchemblValues == {Null, Some("5.0"), Some("6.0"), Some("8.0")}

\* Series.astype(float) on a pchembl_value text: the float, in halves.
AsFloat(v) ==
    CASE Get(v) = "5.0" -> 10
      [] Get(v) = "6.0" -> 12
      [] Get(v) = "8.0" -> 16

\* The standard_type text "IC50".
IC50 == <<"I", "C", "5", "0">>

RawColumns ==
    {"activity_id", "parent_molecule_chembl_id", "canonical_smiles",
     "standard_type", "relation", "data_validity_comment", "pchembl_value"}

\* canonical_smiles is a property of the compound.
Smiles(id) == IF id = "CHEMBL1" THEN "CCO" ELSE "c1ccccc1"

\* One flattened activity record of the bioactivities table; activity_id is
\* the record's position in the provider's answer.
RawRow(i, id, rel, dvc, pch) ==
    [c \in RawColumns |->
        CASE c = "activity_id" -> i
          [] c = "parent_molecule_chembl_id" -> id
          [] c = "canonical_smiles" -> Smiles(id)
          [] c = "standard_type" -> Some(IC50)
          [] c = "relation" -> rel
          [] c = "data_validity_comment" -> dvc
          [] c = "pchembl_value" -> pch]

-----------------------------------------------------------------------------
(* pandas / numpy operations used by Preprocessing *)

\* Series.isnull()
IsNull(v) == v = Null

\* df[valid_rows]: the rows where the boolean mask holds, in order; the
\* columns stay.
BoolIndex(df, valid_rows) ==
    [df EXCEPT !.rows = SelectMask(df.rows, valid_rows)]

\* df[column] == value, as a mask over the rows.
MaskEquals(df, column, value) ==
    [i \in 1..Len(df.rows) |-> df.rows[i][column] = value]

\* df[column].isnull(), as a mask over the rows.
MaskIsNull(df, column) ==
    [i \in 1..Len(df.rows) |-> IsNull(df.rows[i][column])]

\* ~mask
MaskNot(mask) == [i \in 1..Len(mask) |-> ~mask[i]]

\* np.std (ddof = 0) of a non-empty sequence of floats (in halves): the
\* population variance sum((x - mean)^2) / n, in real units, as a reduced
\* fraction.  (n * sum(h^2) - sum(h)^2) / n^2 is the variance in halves^2.
NpStd(xs) ==
    LET n   == Len(xs)
        num == n * SeqSumSq(xs) - SeqSum(xs) * SeqSum(xs)
        den == 4 * n * n
        g   == Gcd(num, den)
    IN  <<num \div g, den \div g>>

\* Mutant of GreaterThanOne: the threshold taken as "at least 1".
GreaterOrEqualOne(std) == std[1] >= std[2]

\* std_deviation > 1
GreaterThanOne(std) == std[1] > std[2]

\* np.median of a non-empty sequence of floats (in halves); the floats of
\* the model are whole numbers, so the mean of the two middle ones is exact.
NpMedian(xs) ==
    LET s == Sorted(xs)
        n == Len(s)
    IN  IF n % 2 = 1 THEN s[(n + 1) \div 2]
        ELSE (s[n \div 2] + s[n \div 2 + 1]) \div 2

\* DataFrame.copy(): a frame of its own with the same columns and rows.
Copy(df) == [columns |-> df.columns, rows |-> df.rows]

\* pd.merge(left, right) with no "on": an inner join on every column the two
\* frames share, in the order of the left rows; each left row is paired with
\* every right row that agrees with it on all shared columns.
RECURSIVE MergeRows(_, _, _)
MergeRows(lrows, right, common) ==
    IF lrows = <<>> THEN <<>>
    ELSE LET l == Head(lrows)
             m == SelectSeq(right.rows, LAMBDA r : \A c \in common : l[c] = r[c])
         IN  [j \in 1..Len(m) |->
                 [c \in DOMAIN l \cup right.columns |->
                     IF c \in DOMAIN l THEN l[c] ELSE m[j][c]]]
             \o MergeRows(Tail(lrows), right, common)

Merge(left, right) ==
    [columns |-> left.columns \cup right.columns,
     rows    |-> MergeRows(left.rows, right, left.columns \cap right.columns)]

\* Mutant of HeadOne: no row is dropped.
HeadOneAll(df, key) == df

\* Mutant of HeadOne: the last row of each group is kept: groupby(key).tail(1).
HeadOneLast(df, key) ==
    [df EXCEPT !.rows =
        SelectMask(df.rows,
                   [i \in 1..Len(df.rows) |->
                       \A j \in (i + 1)..Len(df.rows) :
                           df.rows[j][key] # df.rows[i][key]])]

\* The positions of rows that are the first of their group: groupby(key).head(1).
HeadOne(df, key) ==
    [df EXCEPT !.rows =
        SelectMask(df.rows,
                   [i \in 1..Len(df.rows) |->
                       \A j \in 1..(i - 1) : df.rows[j][key] # df.rows[i][key]])]

-----------------------------------------------------------------------------
(* class Preprocessing *)

\* The names Preprocessing can be constructed with (the default first); none
\* is a column of the raw table or another key of the summary.
ActivityColumnNames == {"median_activity_value", "median_pchembl"}

\* Preprocessing.__init__
NewPreprocessing(activity_column) == [activity_column |-> activity_column]

\* The keys of the Series _mark_to_remove returns.
SummaryColumns(self) ==
    {"number_compounds", "standard_deviation", self.activity_column,
     "duplicated", "mark_to_remove"}

\* Preprocessing._mark_to_remove on the rows of one group.
MarkToRemove(self, data, activity_column) ==
    LET activity_value   == [i \in 1..Len(data) |->
                                AsFloat(data[i][activity_column])]
        std_deviation    == NpStd(activity_value)
        number_compounds == Len(data)
    IN  [c \in SummaryColumns(self) |->
            CASE c = "number_compounds"   -> number_compounds
              [] c = "standard_deviation" -> std_deviation
              [] c = self.activity_column -> NpMedian(activity_value)
              [] c = "duplicated"         -> number_compounds > 1
              [] c = "mark_to_remove"     -> GreaterThanOne(std_deviation)]

\* Mutant of DefaultFilterChembl: the relation is not looked at.
DefaultFilterChemblAnyRelation(bioactivities_df) ==
    LET unflagged == BoolIndex(bioactivities_df,
                               MaskIsNull(bioactivities_df,
                                          "data_validity_comment"))
    IN  BoolIndex(unflagged, MaskNot(MaskIsNull(unflagged, "pchembl_value")))

\* Preprocessing._default_filter_chembl
DefaultFilterChembl(bioactivities_df) ==
    LET equality  == BoolIndex(bioactivities_df,
                               MaskEquals(bioactivities_df, "relation", "="))
        unflagged == BoolIndex(equality,
                               MaskIsNull(equality, "data_validity_comment"))
    IN  BoolIndex(unflagged, MaskNot(MaskIsNull(unflagged, "pchembl_value")))

\* df.groupby(key).apply(_mark_to_remove).reset_index() on a frame with at
\* least one row: one row per key present, in the keys' sort order, holding
\* the key and the group's summary.
GroupbyApply(self, df, key, activity_column) ==
    LET present == {df.rows[i][key] : i \in 1..Len(df.rows)}
        keys    == SelectSeq(CompoundIds, LAMBDA k : k \in present)
    IN  [columns |-> {key} \cup SummaryColumns(self),
         rows    |-> [i \in 1..Len(keys) |->
                        LET grp  == SelectSeq(df.rows, LAMBDA r : r[key] = keys[i])
                            summ == MarkToRemove(self, grp, activity_column)
                        IN  [c \in {key} \cup SummaryColumns(self) |->
                                IF c = key THEN keys[i] ELSE summ[c]]]]

-----------------------------------------------------------------------------
(* State *)

VARIABLES
    data_source,      \* the provider: its class, its table, its column names
    preprocessing,    \* the Preprocessing object (self)
    pc,               \* "ready", or how the last clean_dataset ended:
                      \*   "returned" | "raised"
    error,            \* the exception of a call that raised, else NoError
    grouped_dataset,  \* the summary frame of the last call, once computed
    clean_df,         \* the frame the last call returned
    recleaned,        \* outcome of clean_dataset on the returned frame
    fetch             \* ChEMBLApiDataSource.__init__ in progress

vars == <<data_source, preprocessing, pc, error, grouped_dataset, clean_df,
          recleaned, fetch>>

\* A frame variable that holds no frame yet.
NoFrame == [columns |-> {}, rows |-> <<>>]

\* The provider classes: the ChEMBL API one, and one of the CSV ones the
\* DataSource docstring names, which holds a table and the same three column
\* names but has no filter in clean_dataset.
DataSourceTypes == {"ChEMBLApiDataSource", "CsvDataSource"}

DataSourceNotRecognized == "ValueError: Data source not recognized"

\* What pandas raises when the filtered frame has no rows: groupby.apply
\* then yields no summary columns, and depending on the pandas release the
\* failure is in reset_index, in merge or in merged_df['mark_to_remove'].
EmptyFrameErrors ==
    {"MergeError: No common columns to perform merge on",
     "ValueError: cannot insert parent_molecule_chembl_id, already exists",
     "KeyError: mark_to_remove"}

\* Mutant of ProviderAfterClean: the method works on the provider's own
\* frame, which ends up filtered.
ProviderAliased(ds, local_df) == [ds EXCEPT !.bioactivities_df = local_df]

\* The provider after clean_dataset: the method works on a copy and rebinds
\* its local name to new frames, so the provider keeps its own frame.
ProviderAfterClean(ds, local_df) == ds

\* Mutant of HasDefaultFilter: every provider is filtered as a ChEMBL one.
HasDefaultFilterAny(ds) == TRUE

\* The filter step of clean_dataset: dispatch on the provider's class.
\* TRUE iff the class has a default filter.
HasDefaultFilter(ds) == ds.type = "ChEMBLApiDataSource"

\* merged_df[~merged_df['mark_to_remove']]
DropMarked(merged_df) ==
    BoolIndex(merged_df, MaskNot(MaskEquals(merged_df, "mark_to_remove", TRUE)))

\* Mutant of CleanFrame: the bookkeeping columns of the summary are dropped
\* from the result, leaving the median column.
CleanFrameMedianOnly(ds, filtered, grouped) ==
    LET full == HeadOne(DropMarked(Merge(filtered, grouped)),
                        ds.compound_id_column)
        keep == full.columns \ {"number_compounds", "standard_deviation",
                                "duplicated", "mark_to_remove"}
    IN  [columns |-> keep,
         rows    |-> [i \in 1..Len(full.rows) |->
                        [c \in keep |-> full.rows[i][c]]]]

\* The frame clean_dataset builds from the filtered frame (non-empty) and
\* its summary.
CleanFrame(ds, filtered, grouped) ==
    HeadOne(DropMarked(Merge(filtered, grouped)), ds.compound_id_column)

\* Every way a call clean_dataset(data_source) on self can end.
CleanOutcomes(self, ds) ==
    LET bioactivities_df == Copy(ds.bioactivities_df)
    IN  IF ~HasDefaultFilter(ds)
        THEN {[pc |-> "raised", error |-> DataSourceNotRecognized,
               grouped_dataset |-> NoFrame, clean_df |-> NoFrame,
               data_source |-> ProviderAfterClean(ds, bioactivities_df)]}
        ELSE LET filtered == DefaultFilterChembl(bioactivities_df)
             IN  IF filtered.rows = <<>>
                 THEN {[pc |-> "raised", error |-> e,
                        grouped_dataset |-> NoFrame, clean_df |-> NoFrame,
                        data_source |-> ProviderAfterClean(ds, filtered)]
                       : e \in EmptyFrameErrors}
                 ELSE LET grouped == GroupbyApply(self, filtered,
                                                  ds.compound_id_column,
                                                  ds.activity_column)
                      IN  {[pc |-> "returned", error |-> NoError,
                            grouped_dataset |-> grouped,
                            clean_df |-> CleanFrame(ds, filtered, grouped),
                            data_source |-> ProviderAfterClean(ds, filtered)]}

-----------------------------------------------------------------------------
(* The cleaning specification *)

RowKinds ==
    {CompoundIds[k] : k \in 1..Len(CompoundIds)} \X Relations
        \X ValidityComments \X PchemblValues

\* The raw table of the activity records of the given kinds.
RawTable(kinds) ==
    [columns |-> RawColumns,
     rows    |-> [i \in 1..Len(kinds) |->
                    RawRow(i, kinds[i][1], kinds[i][2], kinds[i][3], kinds[i][4])]]

\* A constructed provider of the given class holding the given table.
Provider(type, table) ==
    [type               |-> type,
     bioactivities_df   |-> table,
     smiles_column      |-> "canonical_smiles",
     compound_id_column |-> "parent_molecule_chembl_id",
     activity_column    |-> "pchembl_value"]

FetchIdle == [pc |-> "idle"]

Init ==
    /\ \E t \in DataSourceTypes, n \in 0..MaxRows :
           \E kinds \in [1..n -> RowKinds] :
               data_source = Provider(t, RawTable(kinds))
    /\ \E name \in ActivityColumnNames :
           preprocessing = NewPreprocessing(name)
    /\ pc = "ready"
    /\ error = NoError
    /\ grouped_dataset = NoFrame
    /\ clean_df = NoFrame
    /\ recleaned = [pc |-> "ready", error |-> NoError, clean_df |-> NoFrame]
    /\ fetch = FetchIdle

\* preprocessing.clean_dataset(data_source)
CleanDataset ==
    /\ \E o \in CleanOutcomes(preprocessing, data_source) :
           /\ pc' = o.pc
           /\ error' = o.error
           /\ grouped_dataset' = o.grouped_dataset
           /\ clean_df' = o.clean_df
           /\ data_source' = o.data_source
    /\ UNCHANGED <<preprocessing, recleaned, fetch>>

Next == CleanDataset

Spec == Init /\ [][Next]_vars

-----------------------------------------------------------------------------
(* Cleaning the cleaned table *)

\* preprocessing.clean_dataset on a provider of the same class whose table
\* is the frame the last call returned.
CleanDatasetOnOutput ==
    /\ pc = "returned"
    /\ \E o \in CleanOutcomes(preprocessing,
                               Provider(data_source.type, clean_df)) :
           recleaned' = [pc |-> o.pc, error |-> o.error,
                         clean_df |-> o.clean_df]
    /\ UNCHANGED <<data_source, preprocessing, pc, error, grouped_dataset,
                   clean_df, fetch>>

NextReclean == CleanDataset \/ CleanDatasetOnOutput

SpecReclean == Init /\ [][NextReclean]_vars

-----------------------------------------------------------------------------
(* class ChEMBLApiDataSource: the constructor *)

\* Largest number of activity records the ChEMBL client answers with.
MaxRecords == 2

Ki == <<"K", "i">>

PKi == <<"p", "K", "i">>

\* standard_type of a record of the answer.
RecordStandardTypes == {Null, Some(IC50), Some(Ki), Some(PKi)}

\* Texts a caller asks for: "ic50", "KI", "i".
AcceptedTexts == {<<"i", "c", "5", "0">>, <<"K", "I">>, <<"i">>}

\* ligand_efficiency of a record: absent, or a nested dict.
LigandEfficiencies == {Null, Some([bei |-> "12.5"])}

\* 'ligand_efficiency_%s' % col
LigandEfficiencyColumn(col) ==
    CASE col = "bei" -> "ligand_efficiency_bei"

\* The keys of a record of the answer.
ApiKeys == RawColumns \cup {"activity_properties", "ligand_efficiency"}

\* One record of the answer: the fields the constructor reads are free, the
\* others are those of a valid measurement of CHEMBL1.
CompoundDict(i, stype, le) ==
    [c \in ApiKeys |->
        CASE c = "standard_type" -> stype
          [] c = "ligand_efficiency" -> le
          [] c = "activity_properties" -> <<>>
          [] OTHER -> RawRow(i, "CHEMBL1", "=", Null, Some("6.0"))[c]]

\* str.lower() on one character.
LowerChar(c) ==
    CASE c = "I" -> "i"
      [] c = "C" -> "c"
      [] c = "K" -> "k"
      [] c = "P" -> "p"
      [] OTHER -> c

\* str.lower()
Lower(text) == [i \in 1..Len(text) |-> LowerChar(text[i])]

\* sub in text
Contains(sub, text) ==
    \E i \in 0..(Len(text) - Len(sub)) :
        SubSeq(text, i + 1, i + Len(sub)) = sub

\* The standard_types argument: None, one str (its text), or a list of str
\* (its elements).
StandardTypesArgs ==
    {[kind |-> "None", text |-> <<>>, list |-> <<>>]}
    \cup {[kind |-> "str", text |-> t, list |-> <<>>] : t \in AcceptedTexts}
    \cup {[kind |-> "list", text |-> <<>>, list |-> l] :
             l \in UNION {[1..n -> AcceptedTexts] : n \in 0..2}}

\* Mutant of WrapStandardTypes: a lone str is not wrapped, so iterating it
\* yields its characters.
WrapStandardTypesNot(standard_types) ==
    IF standard_types.kind = "str"
    THEN [kind |-> "list", text |-> <<>>,
          list |-> [i \in 1..Len(standard_types.text) |->
                       <<standard_types.text[i]>>]]
    ELSE standard_types

\* self.standard_types as __init__ sets it: a lone str is wrapped in a list.
WrapStandardTypes(standard_types) ==
    IF standard_types.kind = "str"
    THEN [kind |-> "list", text |-> <<>>, list |-> <<standard_types.text>>]
    ELSE standard_types

\* is_valid_std_type of get_compound_df
IsValidStdType(standard_types, compound_dict) ==
    IF standard_types.kind = "None" \/ compound_dict["standard_type"] = Null
    THEN FALSE
    ELSE LET compound_std_type == Lower(Get(compound_dict["standard_type"]))
         IN  \E k \in 1..Len(standard_types.list) :
                 Contains(Lower(standard_types.list[k]), compound_std_type)

\* get_compound_df without its progress line: a one-row frame for a record
\* of an accepted type (activity_properties dropped, ligand_efficiency
\* flattened), else a frame with the record's keys and no row.
GetCompoundDf(standard_types, compound_dict) ==
    IF IsValidStdType(standard_types, compound_dict)
    THEN LET kept           == ApiKeys \ {"activity_properties", "ligand_efficiency"}
             lig_efficiency == compound_dict["ligand_efficiency"]
             lig_columns    == IF lig_efficiency = Null THEN {}
                               ELSE DOMAIN Get(lig_efficiency)
             columns        == kept \cup {LigandEfficiencyColumn(col) :
                                            col \in lig_columns}
         IN  [columns |-> columns,
              rows    |-> <<[c \in columns |->
                               IF c \in kept THEN compound_dict[c]
                               ELSE Get(lig_efficiency)[
                                        CHOOSE col \in lig_columns :
                                            LigandEfficiencyColumn(col) = c]]>>]
    ELSE [columns |-> ApiKeys, rows |-> <<>>]

\* pd.concat(frames, sort=False).reset_index(drop=True): the union of the
\* columns, the rows in order, a column a row lacks filled with NaN.
RECURSIVE ConcatRows(_, _)
ConcatRows(frames, columns) ==
    IF frames = <<>> THEN <<>>
    ELSE [j \in 1..Len(Head(frames).rows) |->
             [c \in columns |->
                 IF c \in Head(frames).columns THEN Head(frames).rows[j][c]
                 ELSE Null]]
         \o ConcatRows(Tail(frames), columns)

Concat(frames) ==
    LET columns == UNION {frames[i].columns : i \in 1..Len(frames)}
    IN  [columns |-> columns, rows |-> ConcatRows(frames, columns)]

\* print_progress_bar(iteration, total, length=50): what it prints is a
\* function of the fill of the bar and of whether the line is ended.
PrintProgressBar(iteration, total) ==
    [iteration    |-> iteration,
     total        |-> total,
     filledLength |-> (50 * iteration) \div total,
     newline      |-> iteration = total]

\* A provider object whose attributes __init__ has not set yet.
Unconstructed ==
    [type               |-> "ChEMBLApiDataSource",
     bioactivities_df   |-> NoFrame,
     smiles_column      |-> "unset",
     compound_id_column |-> "unset",
     activity_column    |-> "unset"]

NoProgress == [iteration |-> 0, total |-> 0, filledLength |-> 0, newline |-> FALSE]

InitFetch ==
    /\ \E arg \in StandardTypesArgs, n \in 0..MaxRecords :
           \E st \in [1..n -> RecordStandardTypes],
              le \in [1..n -> LigandEfficiencies] :
               fetch = [pc |-> "new",
                        arg |-> arg,
                        standard_types |-> arg,
                        result |-> [i \in 1..n |-> CompoundDict(i, st[i], le[i])],
                        number_retrieved_compounds |-> 0,
                        idx |-> 0,
                        frames |-> <<>>,
                        progress |-> NoProgress,
                        error |-> NoError]
    /\ data_source = Unconstructed
    /\ preprocessing = NewPreprocessing("median_activity_value")
    /\ pc = "ready"
    /\ error = NoError
    /\ grouped_dataset = NoFrame
    /\ clean_df = NoFrame
    /\ recleaned = [pc |-> "ready", error |-> NoError, clean_df |-> NoFrame]

\* __init__ up to the first progress line: the arguments are stored, the
\* answer is counted, and the empty bar is printed, which divides by the
\* count.
Construct ==
    /\ fetch.pc = "new"
    /\ LET n == Len(fetch.result)
           f == [fetch EXCEPT !.standard_types = WrapStandardTypes(fetch.arg),
                              !.number_retrieved_compounds = n]
       IN  fetch' = IF n = 0
                    THEN [f EXCEPT !.pc = "raised",
                                   !.error = "ZeroDivisionError"]
                    ELSE [f EXCEPT !.pc = "loop",
                                   !.progress = PrintProgressBar(0, n)]
    /\ UNCHANGED <<data_source, preprocessing, pc, error, grouped_dataset,
                   clean_df, recleaned>>

\* get_compound_df(idx, compound_dict) for the next record of the answer.
GetCompoundDfStep ==
    /\ fetch.pc = "loop"
    /\ fetch.idx < fetch.number_retrieved_compounds
    /\ fetch' = [fetch EXCEPT
                    !.frames = Append(@, GetCompoundDf(fetch.standard_types,
                                                       fetch.result[fetch.idx + 1])),
                    !.progress = PrintProgressBar(fetch.idx + 1,
                                                  fetch.number_retrieved_compounds),
                    !.idx = @ + 1]
    /\ UNCHANGED <<data_source, preprocessing, pc, error, grouped_dataset,
                   clean_df, recleaned>>

\* The frames are concatenated and the provider's attributes are set.
Finish ==
    /\ fetch.pc = "loop"
    /\ fetch.idx = fetch.number_retrieved_compounds
    /\ fetch' = [fetch EXCEPT !.pc = "done"]
    /\ data_source' = Provider("ChEMBLApiDataSource", Concat(fetch.frames))
    /\ UNCHANGED <<preprocessing, pc, error, grouped_dataset, clean_df,
                   recleaned>>

NextFetch == Construct \/ GetCompoundDfStep \/ Finish

SpecFetch == InitFetch /\ [][NextFetch]_vars

-----------------------------------------------------------------------------
(* Properties of clean_dataset *)

RawRows == data_source.bioactivities_df.rows

IdColumn == "parent_molecule_chembl_id"

Returned == pc = "returned"

\* A raw row passes the ChEMBL filter.
Passes(r) ==
    /\ r["relation"] = "="
    /\ r["data_validity_comment"] = Null
    /\ r["pchembl_value"] # Null

\* The raw rows of a compound that pass the filter, in raw order.
PassingRows(id) == SelectSeq(RawRows, LAMBDA r : Passes(r) /\ r[IdColumn] = id)

IdsPresent == {RawRows[i][IdColumn] : i \in 1..Len(RawRows)}

IdsPassing == {id \in IdsPresent : PassingRows(id) # <<>>}

\* The rows of the returned table that belong to a compound.
OutputRows(id) == SelectSeq(clean_df.rows, LAMBDA r : r[IdColumn] = id)

\* The population standard deviation of the activity values of the passing
\* rows of a compound exceeds 1.0: with n values x and sum S, the mean of
\* (x - S/n)^2 exceeds 1, that is sum((n*h - Sh)^2) > 4 * n^3 in halves h.
DeviationAboveOne(id) ==
    LET rows == PassingRows(id)
        n    == Len(rows)
        h    == [i \in 1..n |-> AsFloat(rows[i]["pchembl_value"])]
        Sh   == SeqSum(h)
    IN  SeqSumSq([i \in 1..n |-> n * h[i] - Sh]) > 4 * n * n * n

\* C1 (uniqueness): in the table clean_dataset returns for a raw table, no
\* two rows share a compound identifier.
C1_Uniqueness ==
    Returned =>
        \A i, j \in 1..Len(clean_df.rows) :
            clean_df.rows[i][IdColumn] = clean_df.rows[j][IdColumn] => i = j

\* A compound with two passing rows is in the returned table.
C1_Witness ==
    /\ Returned
    /\ \E id \in IdsPassing : Len(PassingRows(id)) > 1 /\ OutputRows(id) # <<>>

\* C2 (threshold): after clean_dataset on a ChEMBL provider, every compound
\* with a passing row whose passing activity values have a population
\* standard deviation above 1.0 has no row in the returned table, and every
\* other compound with a passing row has exactly one.
C2_Threshold ==
    (pc # "ready" /\ data_source.type = "ChEMBLApiDataSource") =>
        \A id \in IdsPassing :
            /\ Returned
            /\ Len(OutputRows(id)) = IF DeviationAboveOne(id) THEN 0 ELSE 1

\* A compound whose two passing values deviate by more than 1.0 is absent
\* from the returned table.
C2_Witness ==
    /\ Returned
    /\ \E id \in IdsPassing :
           /\ Len(PassingRows(id)) > 1
           /\ DeviationAboveOne(id)
           /\ OutputRows(id) = <<>>

\* C3 (filter conjunction): every row of the returned table has relation
\* "=", no data-validity comment and an activity value, and no raw row with
\* another relation is in it.
C3_FilterConjunction ==
    Returned =>
        /\ \A i \in 1..Len(clean_df.rows) : Passes(clean_df.rows[i])
        /\ \A i \in 1..Len(RawRows) :
               RawRows[i]["relation"] # "=" =>
                   \A j \in 1..Len(clean_df.rows) :
                       clean_df.rows[j]["activity_id"] # RawRows[i]["activity_id"]

\* A compound is in the returned table although one of its raw rows has a
\* relation other than "=", an activity value and no comment.
C3_Witness ==
    /\ Returned
    /\ \E i \in 1..Len(RawRows) :
           /\ RawRows[i]["relation"] # "="
           /\ RawRows[i]["data_validity_comment"] = Null
           /\ RawRows[i]["pchembl_value"] # Null
           /\ OutputRows(RawRows[i][IdColumn]) # <<>>

C5_Idempotence ==
    recleaned.pc # "ready" =>
        /\ recleaned.pc = "returned"
        /\ recleaned.clean_df = clean_df

\* C6 (empty input): clean_dataset on a ChEMBL provider none of whose rows
\* passes the filter returns a table with no rows and raises nothing.
C6_EmptyInput ==
    (pc # "ready" /\ data_source.type = "ChEMBLApiDataSource"
        /\ IdsPassing = {}) =>
        /\ Returned
        /\ error = NoError
        /\ clean_df.rows = <<>>

C9_Representative ==
    Returned =>
        /\ \A i \in 1..Len(clean_df.rows) :
               LET first == Head(PassingRows(clean_df.rows[i][IdColumn]))
               IN  \A c \in data_source.bioactivities_df.columns :
                       clean_df.rows[i][c] = first[c]
        /\ \A i, j \in 1..Len(clean_df.rows) :
               i < j => clean_df.rows[i]["activity_id"]
                            < clean_df.rows[j]["activity_id"]

\* The emitted row of a compound with two values is the first one, whose
\* value is not the median; or two compounds are emitted against the sort
\* order of their identifiers.
C9_Witness ==
    /\ Returned
    /\ \/ \E i \in 1..Len(clean_df.rows) :
              /\ Len(PassingRows(clean_df.rows[i][IdColumn])) > 1
              /\ clean_df.rows[i][preprocessing.activity_column]
                     # AsFloat(clean_df.rows[i]["pchembl_value"])
       \/ /\ Len(clean_df.rows) = 2
          /\ clean_df.rows[1][IdColumn] = "CHEMBL2"
          /\ clean_df.rows[2][IdColumn] = "CHEMBL1"

-----------------------------------------------------------------------------
(* Properties of the constructor *)

\* The accepted types the caller gave: none, the one text, or the texts of
\* the list.
AcceptedSet ==
    CASE fetch.arg.kind = "None" -> {}
      [] fetch.arg.kind = "str"  -> {fetch.arg.text}
      [] fetch.arg.kind = "list" ->
             {fetch.arg.list[k] : k \in 1..Len(fetch.arg.list)}

\* Record i has a measurement type that contains, case-insensitively, an
\* accepted type.
TypeAccepted(i) ==
    LET st == fetch.result[i]["standard_type"]
    IN  /\ st # Null
        /\ \E t \in AcceptedSet :
               \E off \in 0..(Len(Get(st)) - Len(t)) :
                   \A k \in 1..Len(t) :
                       LowerChar(Get(st)[off + k]) = LowerChar(t[k])

\* C10 (fetch type matching): the rows of the constructed provider's table
\* are the records of an accepted type, one row each, in the order of the
\* answer.
C10_TypeMatching ==
    fetch.pc = "done" =>
        LET kept == SelectSeq([i \in 1..Len(fetch.result) |-> i],
                              LAMBDA i : TypeAccepted(i))
        IN  /\ Len(RawRows) = Len(kept)
            /\ \A p \in 1..Len(kept) :
                   /\ RawRows[p]["activity_id"] = kept[p]
                   /\ RawRows[p]["standard_type"]
                          = fetch.result[kept[p]]["standard_type"]

\* A record is kept on a match that needs the lower-casing, with a text
\* shorter than its type, and another record is left out.
C10_Witness ==
    /\ fetch.pc = "done"
    /\ Len(RawRows) = 1
    /\ Len(fetch.result) = 2
    /\ \E t \in AcceptedSet :
           /\ AcceptedSet = {t}
           /\ Len(t) < Len(Get(RawRows[1]["standard_type"]))
           /\ ~Contains(t, Get(RawRows[1]["standard_type"]))

====
